---- MODULE Spec2Model ----
(***************************************************************************)
(* A model of trace_signals (src/trace_signals.py): a context manager that *)
(* patches a dispatch channel (a Django Signal class or instance) so that  *)
(* every send and every receiver invocation writes a trace line.           *)
(*                                                                         *)
(* The program is modelled as a small-step interpreter: `stack` is the     *)
(* Python call stack, each frame names the function it runs and the place  *)
(* it has reached, and every action below is one step of one function of   *)
(* the source.  The dispatcher itself (django.dispatch.Signal) is not part *)
(* of the repository; its three entry points are modelled from the         *)
(* collaborator contract of the specification (section 6).                 *)
(***************************************************************************)
EXTENDS Integers, Sequences, FiniteSets, TLC

VARIABLES
    attrs,            \* attribute tables of the channel classes and instances
    layers,           \* one closure per trace_signals(...) call, by layer id
    guards,           \* the patched_signal_context guards entered, innermost last
    depth,            \* Context.depth of each layer's Context class
    call_count,       \* Context.call_count of each layer's Context class
    current_context,  \* Context.current_context of each layer's Context class
    contexts,         \* the Context objects built during the current call
    stack,            \* the call stack, innermost frame last
    ret,              \* what the frame that finished last returned or raised
    events,           \* output lines and receiver executions of the current call
    op,               \* the top-level call in progress or finished last
    ncalls,           \* top-level calls made so far
    suppress,         \* the suppress argument the program passes to trace_signals
    enumerations,     \* history: traced enumerations of channel a's receivers
    kept,             \* a wrapped receiver the program keeps for a later call
    candidates,       \* get_signal_name on its own: the reference names found
    resolved,         \* get_signal_name on its own: what it returned or raised
    threads           \* two threads dispatching at once: where each has got to

vars == <<attrs, layers, guards, depth, call_count, current_context,
          contexts, stack, ret, events, op, ncalls, suppress, enumerations,
          kept, candidates, resolved, threads>>

patching == <<attrs, layers, guards>>
program == <<op, ncalls, suppress>>
\* state of the specifications below that run one part of the program alone
aside == <<kept, candidates, resolved, threads>>

(***************************************************************************)
(* Bounds of the model.                                                    *)
(***************************************************************************)
MaxLayers == 2
MaxCalls == 2

(***************************************************************************)
(* Strings that the program inspects are sequences of code points.         *)
(***************************************************************************)
S_django_dot == <<100, 106, 97, 110, 103, 111, 46>>          \* "django."
S_underscore == <<95>>                                        \* "_"
S_dot == <<46>>                                               \* "."
S_empty == <<>>                                               \* ""
S_django_db == S_django_dot \o <<100, 98>>                    \* "django.db"
S_app == <<97, 112, 112>>                                     \* "app"
S_orders == <<111, 114, 100, 101, 114, 115>>                  \* "orders"
S_pre_save == <<112, 114, 101, 95, 115, 97, 118, 101>>        \* "pre_save"
S_ps == <<95, 112, 115>>                                      \* "_ps"
S_created == <<99, 114, 101, 97, 116, 101, 100>>              \* "created"
S_sig == <<115, 105, 103>>                                    \* "sig"

(***************************************************************************)
(* The world the program runs in: two channel classes, four channels,      *)
(* their registered receivers and the dictionaries that refer to them.     *)
(***************************************************************************)
Classes == {"Signal", "ModelSignal"}
Instances == {"a", "b", "c", "d"}
Targets == Classes \cup Instances
EntryPoints == {"_live_receivers", "send", "send_robust"}

TypeOf(i) == IF i = "a" THEN "ModelSignal" ELSE "Signal"

\* (container name, attribute name) of every dict entry that holds the channel
Referrers(i) ==
    CASE i = "a" -> {<<S_django_db, S_pre_save>>, <<S_app, S_ps>>}
      [] i = "b" -> {<<S_orders, S_created>>, <<S_empty, S_sig>>}
      [] i = "d" -> {<<S_orders, S_created>>}
      [] OTHER   -> {}

Registry(i) ==
    CASE i = "a" -> <<"relay", "boom", "on_created">>
      [] i = "b" -> <<"on_signal">>
      [] i = "d" -> <<"on_created">>
      [] OTHER   -> <<"audit">>

Handlers == {"relay", "on_created", "boom", "on_signal", "audit"}

\* what a receiver does when it runs
HandlerKind(h) ==
    CASE h = "relay" -> "nest"
      [] h = "boom"  -> "raise"
      [] OTHER       -> "return"

HandlerValue(h) ==
    CASE h = "relay"      -> "relayed"
      [] h = "on_created" -> "created"
      [] h = "boom"       -> "ValueError"
      [] h = "on_signal"  -> "started"
      [] OTHER            -> "audited"

NestTarget == "b"

\* sender and keyword payload of the sends made on each channel
Sender(i) ==
    IF i = "b" THEN [is_type |-> FALSE, text |-> "<Shop object>"]
               ELSE [is_type |-> TRUE, text |-> "Order"]

Kwargs(i) ==
    IF i = "a" THEN [instance |-> TRUE, has_pk |-> TRUE, pk |-> 1]
               ELSE [instance |-> FALSE, has_pk |-> FALSE, pk |-> 0]

\* the suppress argument the program passes to trace_signals
SuppressChoices == {{}, {S_created}}

(***************************************************************************)
(* Values.                                                                 *)
(***************************************************************************)
None == 0            \* no Context (an index into `contexts` otherwise)
Absent == -1         \* the attribute is not in the object's own table
Django == 0          \* the dispatcher's own function (a layer id otherwise)

NoValue == [kind |-> "none", val |-> <<>>]
Return(v) == [kind |-> "return", val |-> v]
Raise(e) == [kind |-> "raise", val |-> e]

\* a callable: receiver h under the wrappers of the layers in `wraps`
Callable(w, h) == [wraps |-> w, h |-> h]
NoHandler == Callable(<<>>, "")

Frame(fn, layer, inst, pc) ==
    [fn |-> fn, layer |-> layer, inst |-> inst, pc |-> pc, ctx |-> None,
     recvs |-> <<>>, idx |-> 0, acc |-> <<>>, rcv |-> Callable(<<>>, "")]

Top == stack[Len(stack)]
Popped == SubSeq(stack, 1, Len(stack) - 1)
Replaced(f) == [stack EXCEPT ![Len(stack)] = f]
Running(fn, pc) == stack # <<>> /\ Top.fn = fn /\ Top.pc = pc

(***************************************************************************)
(* Attribute lookup: an instance's own table, then its class, then the     *)
(* base class.                                                             *)
(***************************************************************************)
ClassLookup(at, cls, ep) ==
    IF at[cls][ep] # Absent THEN at[cls][ep] ELSE at["Signal"][ep]

Lookup(at, target, ep) ==
    IF target \in Instances
    THEN IF at[target][ep] # Absent THEN at[target][ep]
         ELSE ClassLookup(at, TypeOf(target), ep)
    ELSE ClassLookup(at, target, ep)

(***************************************************************************)
(* get_signal_name: the last element of the candidates sorted by key.      *)
(***************************************************************************)
StartsWith(s, p) == Len(s) >= Len(p) /\ SubSeq(s, 1, Len(p)) = p

RECURSIVE SeqLess(_, _)
SeqLess(s, t) ==
    IF s = <<>> THEN t # <<>>
    ELSE IF t = <<>> THEN FALSE
    ELSE IF s[1] # t[1] THEN s[1] < t[1]
    ELSE SeqLess(Tail(s), Tail(t))

Bit(b) == IF b THEN 1 ELSE 0

SortKey(i) ==
    <<Bit(i[1] # <<>>),
      Bit(i[1] # <<>> /\ StartsWith(i[1], S_django_dot)),
      Bit(StartsWith(i[2], S_underscore)),
      Len(i[2])>>

KeyLess(i, j) ==
    \/ SeqLess(SortKey(i), SortKey(j))
    \/ /\ SortKey(i) = SortKey(j)
       /\ \/ SeqLess(i[1], j[1])
          \/ i[1] = j[1] /\ SeqLess(i[2], j[2])

get_signal_name(refs) ==
    IF refs = {}
    THEN [raises |-> TRUE, module |-> <<>>, name |-> <<>>]
    ELSE LET best == CHOOSE i \in refs : \A j \in refs \ {i} : KeyLess(j, i)
         IN  [raises |-> FALSE, module |-> best[1], name |-> best[2]]

(***************************************************************************)
(* Receiver names.                                                         *)
(***************************************************************************)
\* on_signal is the bound method of a proxy object whose .receiver is start_flow
resolve_receiver(h) == IF h = "on_signal" THEN "start_flow" ELSE h

get_receiver_name(h) ==
    IF h = "start_flow" THEN "flows.start_flow" ELSE "module." \o h

(***************************************************************************)
(* patch_receiver                                                          *)
(***************************************************************************)
\* mutant: an already wrapped receiver is wrapped again, not replaced
patch_receiver_stacking(L, r) == Callable(<<L>> \o r.wraps, r.h)

\* mutant: the wrapper of another layer is wrapped, not replaced
patch_receiver_rewrap(L, r) ==
    IF r.wraps # <<>> /\ Head(r.wraps) = L THEN r
    ELSE Callable(<<L>> \o r.wraps, r.h)

patch_receiver(L, r) ==
    IF r.wraps # <<>>
    THEN IF Head(r.wraps) = L
         THEN r
         ELSE Callable(<<L>> \o Tail(r.wraps), r.h)
    ELSE Callable(<<L>>, r.h)

(***************************************************************************)
(* class Context: log, log_call, log_receive.  The three class attributes  *)
(* depth, call_count and current_context belong to the Context class of    *)
(* one trace_signals call, so there is one of each per layer.              *)
(***************************************************************************)
base_indent == 4

SigCall(number, method, module, name, sender, kwargs) ==
    [number |-> number, method |-> method, module |-> module, name |-> name,
     sender |-> sender, kwargs |-> kwargs]

NewContext(L, parent, call) ==
    [layer |-> L, parent |-> parent, call |-> call, state |-> "NEW"]

\* mutant: the suppress set is not consulted
log_unfiltered(L, call, msg) ==
    Append(events, [type |-> "line", layer |-> L, name |-> call.name,
                    indent |-> base_indent * depth[L], text |-> msg])

\* mutant: the newest line is put before the lines written so far
log_prepend(L, call, msg) ==
    IF call.name \notin layers[L].suppress
    THEN <<[type |-> "line", layer |-> L, name |-> call.name,
            indent |-> base_indent * depth[L], text |-> msg]>> \o events
    ELSE events

\* Context.log: one line for the sink, unless the call's name is suppressed
log(L, call, msg) ==
    IF call.name \notin layers[L].suppress
    THEN Append(events, [type |-> "line", layer |-> L, name |-> call.name,
                         indent |-> base_indent * depth[L], text |-> msg])
    ELSE events

SenderText(call) ==
    IF call.sender.is_type
    THEN [name |-> call.sender.text,
          pk |-> IF call.kwargs.instance /\ call.kwargs.has_pk
                 THEN <<call.kwargs.pk>> ELSE <<>>]
    ELSE [name |-> call.sender.text, pk |-> <<>>]

log_call(L, call) ==
    log(L, call,
        [fmt |-> "call", method |-> call.method, number |-> call.number,
         qualname |-> IF call.module # <<>>
                      THEN call.module \o S_dot \o call.name
                      ELSE call.name,
         who |-> SenderText(call)])

\* mutant: the receive line names the channel as the header does
log_receive_qualified(L, call, receiver) ==
    log(L, call,
        [fmt |-> "receive", method |-> "RECEIVING", number |-> call.number,
         qualname |-> IF call.module # <<>>
                      THEN call.module \o S_dot \o call.name
                      ELSE call.name,
         who |-> get_receiver_name(resolve_receiver(receiver.h))])

log_receive(L, call, receiver) ==
    log(L, call,
        [fmt |-> "receive", method |-> "RECEIVING", number |-> call.number,
         qualname |-> call.name,
         who |-> get_receiver_name(resolve_receiver(receiver.h))])

\* Context.__enter__ and Context.__exit__ on the heap of Context objects
Entered(c) == [contexts EXCEPT ![c].state = "ACTIVE"]
Exited(c) == [contexts EXCEPT ![c].state = "CLOSED"]

\* mutant: __exit__ leaves the exited context as the current one
ExitCurrent_stale(L, c) == current_context

ExitCurrent(L, c) == [current_context EXCEPT ![L] = contexts[c].parent]

ExitDepth(L) == [depth EXCEPT ![L] = @ - 1]

(***************************************************************************)
(* Calling a function found under an entry point, and calling a receiver.  *)
(***************************************************************************)
WrapperFn(ep) ==
    CASE ep = "send"        -> "send_wrapper"
      [] ep = "send_robust" -> "send_robust_wrapper"
      [] OTHER              -> "_live_receivers_wrapper"

CallFn(f, ep, inst) ==
    IF f = Django
    THEN Frame("Signal." \o ep, Django, inst, "begin")
    ELSE Frame(WrapperFn(ep), f, inst, "begin")

CallReceiver(r, inst) ==
    IF r.wraps = <<>>
    THEN [Frame("receiver", Django, inst, "begin") EXCEPT !.rcv = r]
    ELSE [Frame("receiver_wrapper", Head(r.wraps), inst, "log_receive")
             EXCEPT !.rcv = r]

MethodOf(fn) == IF fn = "send_wrapper" THEN "SEND" ELSE "SEND_ROBUST"
EntryOf(fn) == IF fn = "send_wrapper" THEN "send" ELSE "send_robust"
OriginalOf(lay, ep) ==
    CASE ep = "send"        -> lay.original_send
      [] ep = "send_robust" -> lay.original_send_robust
      [] OTHER              -> lay.original_live_receivers

SendWrappers == {"send_wrapper", "send_robust_wrapper"}
DjangoSends == {"Signal.send", "Signal.send_robust"}

(***************************************************************************)
(* send_wrapper and send_robust_wrapper                                    *)
(***************************************************************************)
\* get_signal_name and Context.with_call
SendWrapperWithCall ==
    /\ UNCHANGED aside
    /\ stack # <<>> /\ Top.fn \in SendWrappers /\ Top.pc = "begin"
    /\ LET L == Top.layer
           nm == get_signal_name(Referrers(Top.inst))
           call == SigCall(call_count[L] + 1, MethodOf(Top.fn), nm.module,
                           nm.name, Sender(Top.inst), Kwargs(Top.inst))
       IN  IF nm.raises
           THEN /\ stack' = Popped
                /\ ret' = Raise("IndexError")
                /\ UNCHANGED <<call_count, contexts>>
           ELSE /\ call_count' = [call_count EXCEPT ![L] = @ + 1]
                /\ contexts' = Append(contexts,
                                      NewContext(L, current_context[L], call))
                /\ stack' = Replaced([Top EXCEPT !.pc = "log_call",
                                                 !.ctx = Len(contexts) + 1])
                /\ UNCHANGED ret
    /\ UNCHANGED <<patching, depth, current_context, events, program,
                   enumerations>>

\* context.log_call()
SendWrapperLogCall ==
    /\ UNCHANGED aside
    /\ stack # <<>> /\ Top.fn \in SendWrappers /\ Top.pc = "log_call"
    /\ events' = log_call(Top.layer, contexts[Top.ctx].call)
    /\ stack' = Replaced([Top EXCEPT !.pc = "with"])
    /\ UNCHANGED <<patching, depth, call_count, current_context, contexts,
                   ret, program, enumerations>>

\* with context: __enter__, then the call of the original entry point
SendWrapperEnter ==
    /\ UNCHANGED aside
    /\ stack # <<>> /\ Top.fn \in SendWrappers /\ Top.pc = "with"
    /\ LET L == Top.layer
           ep == EntryOf(Top.fn)
       IN  /\ current_context' = [current_context EXCEPT ![L] = Top.ctx]
           /\ depth' = [depth EXCEPT ![L] = @ + 1]
           /\ contexts' = Entered(Top.ctx)
           /\ stack' = Append(Replaced([Top EXCEPT !.pc = "exit"]),
                              CallFn(OriginalOf(layers[L], ep), ep, Top.inst))
    /\ UNCHANGED <<patching, call_count, ret, events, program, enumerations>>

\* mutant: __exit__ runs only when the original returns
SendWrapperExitNoFinally ==
    /\ UNCHANGED aside
    /\ stack # <<>> /\ Top.fn \in SendWrappers /\ Top.pc = "exit"
    /\ IF ret.kind = "raise"
       THEN UNCHANGED <<current_context, depth, contexts>>
       ELSE /\ current_context' = ExitCurrent(Top.layer, Top.ctx)
            /\ depth' = ExitDepth(Top.layer)
            /\ contexts' = Exited(Top.ctx)
    /\ stack' = Popped
    /\ UNCHANGED <<patching, call_count, ret, events, program, enumerations>>

\* __exit__, whether the original returned or raised; the outcome passes through
SendWrapperExit ==
    /\ UNCHANGED aside
    /\ stack # <<>> /\ Top.fn \in SendWrappers /\ Top.pc = "exit"
    /\ current_context' = ExitCurrent(Top.layer, Top.ctx)
    /\ depth' = ExitDepth(Top.layer)
    /\ contexts' = Exited(Top.ctx)
    /\ stack' = Popped
    /\ UNCHANGED <<patching, call_count, ret, events, program, enumerations>>

(***************************************************************************)
(* _live_receivers_wrapper                                                 *)
(***************************************************************************)
LiveReceiversWrapperCall ==
    /\ UNCHANGED aside
    /\ Running("_live_receivers_wrapper", "begin")
    /\ stack' = Append(Replaced([Top EXCEPT !.pc = "patch"]),
                       CallFn(layers[Top.layer].original_live_receivers,
                              "_live_receivers", Top.inst))
    /\ UNCHANGED <<patching, depth, call_count, current_context, contexts,
                   ret, events, program, enumerations>>

LiveReceiversWrapperPatch ==
    /\ UNCHANGED aside
    /\ Running("_live_receivers_wrapper", "patch")
    /\ ret' = IF ret.kind = "return"
              THEN Return([k \in 1..Len(ret.val) |->
                              patch_receiver(Top.layer, ret.val[k])])
              ELSE ret
    /\ stack' = Popped
    /\ enumerations' =
           IF /\ Top.inst = "a"
              /\ ret.kind = "return"
              /\ \/ Len(stack) = 1
                 \/ stack[Len(stack) - 1].fn # "_live_receivers_wrapper"
           THEN enumerations + 1 ELSE enumerations
    /\ UNCHANGED <<patching, depth, call_count, current_context, contexts,
                   events, program>>

(***************************************************************************)
(* receiver_wrapper                                                        *)
(***************************************************************************)
\* Context.current_context.log_receive(receiver)
ReceiverWrapperLog ==
    /\ UNCHANGED aside
    /\ Running("receiver_wrapper", "log_receive")
    /\ LET L == Top.layer
           inner == Callable(Tail(Top.rcv.wraps), Top.rcv.h)
       IN  IF current_context[L] = None
           THEN /\ stack' = Popped
                /\ ret' = Raise("AttributeError")
                /\ UNCHANGED events
           ELSE /\ events' = log_receive(L, contexts[current_context[L]].call,
                                         inner)
                /\ stack' = Replaced([Top EXCEPT !.pc = "with"])
                /\ UNCHANGED ret
    /\ UNCHANGED <<patching, depth, call_count, current_context, contexts,
                   program, enumerations>>

\* mutant: the sub-context of the receiver does not deepen the indentation
ReceiverWrapperEnterFlat ==
    /\ UNCHANGED aside
    /\ Running("receiver_wrapper", "with")
    /\ LET L == Top.layer
           parent == current_context[L]
           inner == Callable(Tail(Top.rcv.wraps), Top.rcv.h)
       IN  IF parent = None
           THEN /\ stack' = Popped
                /\ ret' = Raise("AttributeError")
                /\ UNCHANGED <<depth, current_context, contexts>>
           ELSE /\ contexts' = Append(contexts,
                                 [NewContext(L, parent, contexts[parent].call)
                                     EXCEPT !.state = "ACTIVE"])
                /\ current_context' =
                       [current_context EXCEPT ![L] = Len(contexts) + 1]
                /\ depth' = depth
                /\ stack' = Append(Replaced([Top EXCEPT !.pc = "exit",
                                                 !.ctx = Len(contexts) + 1]),
                                   CallReceiver(inner, Top.inst))
                /\ UNCHANGED ret
    /\ UNCHANGED <<patching, call_count, events, program, enumerations>>

\* with Context(): the constructor, __enter__, then the call of the receiver
ReceiverWrapperEnter ==
    /\ UNCHANGED aside
    /\ Running("receiver_wrapper", "with")
    /\ LET L == Top.layer
           parent == current_context[L]
           inner == Callable(Tail(Top.rcv.wraps), Top.rcv.h)
       IN  IF parent = None
           THEN /\ stack' = Popped
                /\ ret' = Raise("AttributeError")
                /\ UNCHANGED <<depth, current_context, contexts>>
           ELSE /\ contexts' = Append(contexts,
                                 [NewContext(L, parent, contexts[parent].call)
                                     EXCEPT !.state = "ACTIVE"])
                /\ current_context' =
                       [current_context EXCEPT ![L] = Len(contexts) + 1]
                /\ depth' = [depth EXCEPT ![L] = @ + 1]
                /\ stack' = Append(Replaced([Top EXCEPT !.pc = "exit",
                                                 !.ctx = Len(contexts) + 1]),
                                   CallReceiver(inner, Top.inst))
                /\ UNCHANGED ret
    /\ UNCHANGED <<patching, call_count, events, program, enumerations>>

\* mutant: the wrapper swallows the receiver's exception
ReceiverWrapperExitSwallow ==
    /\ UNCHANGED aside
    /\ Running("receiver_wrapper", "exit")
    /\ current_context' = ExitCurrent(Top.layer, Top.ctx)
    /\ depth' = ExitDepth(Top.layer)
    /\ contexts' = Exited(Top.ctx)
    /\ stack' = Popped
    /\ ret' = IF ret.kind = "raise" THEN Return("None") ELSE ret
    /\ UNCHANGED <<patching, call_count, events, program, enumerations>>

ReceiverWrapperExit ==
    /\ UNCHANGED aside
    /\ Running("receiver_wrapper", "exit")
    /\ current_context' = ExitCurrent(Top.layer, Top.ctx)
    /\ depth' = ExitDepth(Top.layer)
    /\ contexts' = Exited(Top.ctx)
    /\ stack' = Popped
    /\ UNCHANGED <<patching, call_count, ret, events, program, enumerations>>

(***************************************************************************)
(* The dispatcher (django.dispatch.Signal), from its contract: enumeration *)
(* of the live receivers, send, and send_robust, which turns a receiver's  *)
(* exception into that receiver's response and goes on.  send and          *)
(* send_robust enumerate through self._live_receivers, so through whatever *)
(* is bound there, and pair every response with the receiver called.       *)
(***************************************************************************)
SignalLiveReceivers ==
    /\ UNCHANGED aside
    /\ Running("Signal._live_receivers", "begin")
    /\ ret' = Return([k \in 1..Len(Registry(Top.inst)) |->
                         Callable(<<>>, Registry(Top.inst)[k])])
    /\ stack' = Popped
    /\ UNCHANGED <<patching, depth, call_count, current_context, contexts,
                   events, program, enumerations>>

SignalSendBegin ==
    /\ UNCHANGED aside
    /\ stack # <<>> /\ Top.fn \in DjangoSends /\ Top.pc = "begin"
    /\ IF Registry(Top.inst) = <<>>
       THEN /\ stack' = Popped
            /\ ret' = Return(<<>>)
       ELSE /\ stack' = Append(Replaced([Top EXCEPT !.pc = "receivers"]),
                               CallFn(Lookup(attrs, Top.inst, "_live_receivers"),
                                      "_live_receivers", Top.inst))
            /\ UNCHANGED ret
    /\ UNCHANGED <<patching, depth, call_count, current_context, contexts,
                   events, program, enumerations>>

SignalSendReceivers ==
    /\ UNCHANGED aside
    /\ stack # <<>> /\ Top.fn \in DjangoSends /\ Top.pc = "receivers"
    /\ IF ret.kind = "raise"
       THEN /\ stack' = Popped
            /\ UNCHANGED ret
       ELSE /\ stack' = Replaced([Top EXCEPT !.pc = "loop", !.recvs = ret.val,
                                             !.idx = 1])
            /\ ret' = NoValue
    /\ UNCHANGED <<patching, depth, call_count, current_context, contexts,
                   events, program, enumerations>>

SignalSendLoop ==
    /\ UNCHANGED aside
    /\ stack # <<>> /\ Top.fn \in DjangoSends /\ Top.pc = "loop"
    /\ IF Top.idx > Len(Top.recvs)
       THEN /\ stack' = Popped
            /\ ret' = Return(Top.acc)
       ELSE /\ stack' = Append(Replaced([Top EXCEPT !.pc = "collect"]),
                               CallReceiver(Top.recvs[Top.idx], Top.inst))
            /\ ret' = NoValue
    /\ UNCHANGED <<patching, depth, call_count, current_context, contexts,
                   events, program, enumerations>>

SignalSendCollect ==
    /\ UNCHANGED aside
    /\ stack # <<>> /\ Top.fn \in DjangoSends /\ Top.pc = "collect"
    /\ IF ret.kind = "raise" /\ Top.fn = "Signal.send"
       THEN /\ stack' = Popped
            /\ UNCHANGED ret
       ELSE /\ stack' = Replaced(
                   [Top EXCEPT !.pc = "loop", !.idx = @ + 1,
                               !.acc = Append(@, [receiver |-> Top.recvs[Top.idx],
                                                  raised |-> ret.kind = "raise",
                                                  response |-> ret.val])])
            /\ ret' = NoValue
    /\ UNCHANGED <<patching, depth, call_count, current_context, contexts,
                   events, program, enumerations>>

(***************************************************************************)
(* A registered receiver runs: it returns, it raises, or it sends on       *)
(* another channel and returns when that send has returned.                *)
(***************************************************************************)
ReceiverRuns ==
    /\ UNCHANGED aside
    /\ Running("receiver", "begin")
    /\ events' = Append(events, [type |-> "exec", h |-> Top.rcv.h,
                                 inst |-> Top.inst])
    /\ CASE HandlerKind(Top.rcv.h) = "return" ->
              /\ stack' = Popped
              /\ ret' = Return(HandlerValue(Top.rcv.h))
         [] HandlerKind(Top.rcv.h) = "raise" ->
              /\ stack' = Popped
              /\ ret' = Raise(HandlerValue(Top.rcv.h))
         [] OTHER ->
              /\ stack' = Append(Replaced([Top EXCEPT !.pc = "after"]),
                                 CallFn(Lookup(attrs, NestTarget, "send"),
                                        "send", NestTarget))
              /\ ret' = NoValue
    /\ UNCHANGED <<patching, depth, call_count, current_context, contexts,
                   program, enumerations>>

ReceiverResumes ==
    /\ UNCHANGED aside
    /\ Running("receiver", "after")
    /\ stack' = Popped
    /\ ret' = IF ret.kind = "raise" THEN ret
              ELSE Return(HandlerValue(Top.rcv.h))
    /\ UNCHANGED <<patching, depth, call_count, current_context, contexts,
                   events, program, enumerations>>

(***************************************************************************)
(* patch_signal and the unpatch it returns                                 *)
(***************************************************************************)
EntryTable(lr, s, sr) ==
    [ep \in EntryPoints |->
        CASE ep = "send" -> s [] ep = "send_robust" -> sr [] OTHER -> lr]

\* the closure of one trace_signals call once patch_signal has run
patch_signal(at, signal, suppressed) ==
    LET is_instance == signal \in Instances
        signal_cls == IF is_instance THEN TypeOf(signal) ELSE signal
    IN  [signal |-> signal,
         is_instance |-> is_instance,
         signal_cls |-> signal_cls,
         suppress |-> suppressed,
         original_live_receivers |-> ClassLookup(at, signal_cls, "_live_receivers"),
         original_send |-> ClassLookup(at, signal_cls, "send"),
         original_send_robust |-> ClassLookup(at, signal_cls, "send_robust"),
         orignal_bound_live_receivers |->
             IF is_instance THEN Lookup(at, signal, "_live_receivers") ELSE Absent,
         original_bound_send |->
             IF is_instance THEN Lookup(at, signal, "send") ELSE Absent,
         original_bound_send_robust |->
             IF is_instance THEN Lookup(at, signal, "send_robust") ELSE Absent]

\* the attribute tables before any install: only the base class defines
\* the entry points
Pristine ==
    [t \in Targets |->
        [ep \in EntryPoints |-> IF t = "Signal" THEN Django ELSE Absent]]

\* what every entry point of every class and channel resolves to
Resolution(at) == [t \in Targets |-> [ep \in EntryPoints |-> Lookup(at, t, ep)]]

\* the rebinding patch_signal does, on the instance or on its class
Patched(at, L, lay) ==
    [at EXCEPT ![IF lay.is_instance THEN lay.signal ELSE lay.signal_cls] =
                   EntryTable(L, L, L)]

\* mutant: the enumeration entry point is not restored
unpatch_keeps_enumeration(at, lay) ==
    LET t == IF lay.is_instance THEN lay.signal ELSE lay.signal_cls
    IN  [at EXCEPT ![t] =
            EntryTable(at[t]["_live_receivers"],
                       IF lay.is_instance THEN lay.original_bound_send
                                          ELSE lay.original_send,
                       IF lay.is_instance THEN lay.original_bound_send_robust
                                          ELSE lay.original_send_robust)]

\* mutant: revert falls back to the dispatcher's own functions
unpatch_default(at, lay) ==
    [at EXCEPT ![IF lay.is_instance THEN lay.signal ELSE lay.signal_cls] =
                   EntryTable(Django, Django, Django)]

unpatch(at, lay) ==
    IF lay.is_instance
    THEN [at EXCEPT ![lay.signal] =
              EntryTable(lay.orignal_bound_live_receivers,
                         lay.original_bound_send,
                         lay.original_bound_send_robust)]
    ELSE [at EXCEPT ![lay.signal_cls] =
              EntryTable(lay.original_live_receivers,
                         lay.original_send,
                         lay.original_send_robust)]

(***************************************************************************)
(* Top-level operations of the program that uses trace_signals.            *)
(***************************************************************************)
Idle == stack = <<>>
NoCall == [ep |-> "", inst |-> ""]
\* the calls the program makes
Calls == {<<"a", "send">>, <<"a", "send_robust">>, <<"a", "_live_receivers">>,
          <<"b", "send">>, <<"c", "send">>}
\* the channels and channel classes the program instruments
InstallTargets == {"Signal", "ModelSignal", "a"}
Propagating == Idle /\ ret.kind = "raise"

\* with trace_signals(signal, suppress=...): the guard is entered
Install(signal) ==
    /\ UNCHANGED aside
    /\ Idle /\ ~Propagating
    /\ Len(layers) < MaxLayers
    /\ LET L == Len(layers) + 1
           lay == patch_signal(attrs, signal, suppress)
           \* history, for the properties: the resolution and the guards
           \* entered when the layer was installed
           hist == [before |-> Resolution(attrs), enclosing |-> guards]
       IN  /\ layers' = Append(layers, lay @@ hist)
           /\ attrs' = Patched(attrs, L, lay)
           /\ guards' = Append(guards, L)
    /\ depth' = Append(depth, 0)
    /\ call_count' = Append(call_count, 0)
    /\ current_context' = Append(current_context, None)
    /\ ret' = NoValue
    /\ events' = <<>>
    /\ contexts' = <<>>
    /\ op' = NoCall
    /\ UNCHANGED <<stack, ncalls, suppress, enumerations>>

\* the innermost guard is left, by the end of its body or by an exception
\* that propagates out of the body: finally: unpatch()
GuardExit ==
    /\ UNCHANGED aside
    /\ Idle
    /\ guards # <<>>
    /\ attrs' = unpatch(attrs, layers[guards[Len(guards)]])
    /\ guards' = SubSeq(guards, 1, Len(guards) - 1)
    /\ ret' = IF Propagating THEN ret ELSE NoValue
    /\ events' = <<>>
    /\ contexts' = <<>>
    /\ op' = NoCall
    /\ UNCHANGED <<layers, depth, call_count, current_context, stack, ncalls,
                   suppress, enumerations>>

\* the program catches the exception of its last call
Catch ==
    /\ UNCHANGED aside
    /\ Propagating
    /\ ret' = NoValue
    /\ UNCHANGED <<patching, depth, call_count, current_context, contexts,
                   stack, events, program, enumerations>>

\* signal.send(sender, **kw), signal.send_robust(sender, **kw) or
\* signal._live_receivers(sender), called by the program
Call(inst, ep) ==
    /\ UNCHANGED aside
    /\ Idle /\ ~Propagating
    /\ ncalls < MaxCalls
    /\ ncalls' = ncalls + 1
    /\ op' = [ep |-> ep, inst |-> inst]
    /\ stack' = <<CallFn(Lookup(attrs, inst, ep), ep, inst)>>
    /\ ret' = NoValue
    /\ events' = <<>>
    /\ contexts' = <<>>
    /\ UNCHANGED <<patching, depth, call_count, current_context, suppress,
                   enumerations>>

Init ==
    /\ attrs = [t \in Targets |->
                   [ep \in EntryPoints |-> IF t = "Signal" THEN Django ELSE Absent]]
    /\ layers = <<>>
    /\ guards = <<>>
    /\ depth = <<>>
    /\ call_count = <<>>
    /\ current_context = <<>>
    /\ contexts = <<>>
    /\ stack = <<>>
    /\ ret = NoValue
    /\ events = <<>>
    /\ op = NoCall
    /\ ncalls = 0
    /\ suppress \in SuppressChoices
    /\ enumerations = 0
    /\ kept = NoHandler
    /\ candidates = {}
    /\ resolved = NoValue
    /\ threads = <<>>

Next ==
    \/ \E t \in InstallTargets : Install(t)
    \/ GuardExit
    \/ Catch
    \/ \E c \in Calls : Call(c[1], c[2])
    \/ SendWrapperWithCall
    \/ SendWrapperLogCall
    \/ SendWrapperEnter
    \/ SendWrapperExit
    \/ LiveReceiversWrapperCall
    \/ LiveReceiversWrapperPatch
    \/ ReceiverWrapperLog
    \/ ReceiverWrapperEnter
    \/ ReceiverWrapperExit
    \/ SignalLiveReceivers
    \/ SignalSendBegin
    \/ SignalSendReceivers
    \/ SignalSendLoop
    \/ SignalSendCollect
    \/ ReceiverRuns
    \/ ReceiverResumes

Spec == Init /\ [][Next]_vars

(***************************************************************************)
(* A second program: it instruments the channel d (orders.created, one     *)
(* receiver module.on_created) or its class, sends on d with sender Order  *)
(* and no keyword arguments, and may keep a receiver it got from the       *)
(* channel to call it later.                                               *)
(***************************************************************************)
OrdersTargets == {"Signal", "d"}
OrdersCalls == {"send", "_live_receivers"}

\* the program keeps a receiver from the result of its last call
Keep ==
    /\ Idle /\ ret.kind = "return"
    /\ op.inst = "d" /\ op.ep \in OrdersCalls
    /\ kept = NoHandler
    /\ \E k \in 1..Len(ret.val) :
          kept' = IF op.ep = "send" THEN ret.val[k].receiver ELSE ret.val[k]
    /\ UNCHANGED <<patching, depth, call_count, current_context, contexts,
                   stack, ret, events, program, enumerations, candidates,
                   resolved, threads>>

\* the program calls the receiver it kept
InvokeKept ==
    /\ Idle /\ ~Propagating
    /\ kept # NoHandler
    /\ ncalls < MaxCalls
    /\ ncalls' = ncalls + 1
    /\ op' = [ep |-> "receiver", inst |-> "d"]
    /\ stack' = <<CallReceiver(kept, "d")>>
    /\ ret' = NoValue
    /\ events' = <<>>
    /\ contexts' = <<>>
    /\ UNCHANGED <<patching, depth, call_count, current_context, suppress,
                   enumerations, aside>>

NextOrders ==
    \/ \E t \in OrdersTargets : Install(t)
    \/ GuardExit
    \/ Catch
    \/ \E ep \in OrdersCalls : Call("d", ep)
    \/ Keep
    \/ InvokeKept
    \/ SendWrapperWithCall
    \/ SendWrapperLogCall
    \/ SendWrapperEnter
    \/ SendWrapperExit
    \/ LiveReceiversWrapperCall
    \/ LiveReceiversWrapperPatch
    \/ ReceiverWrapperLog
    \/ ReceiverWrapperEnter
    \/ ReceiverWrapperExit
    \/ SignalLiveReceivers
    \/ SignalSendBegin
    \/ SignalSendReceivers
    \/ SignalSendLoop
    \/ SignalSendCollect
    \/ ReceiverRuns

SpecOrders == Init /\ [][NextOrders]_vars

(***************************************************************************)
(* get_signal_name on its own: the reference names found for a channel are *)
(* any set of (container name, attribute name) pairs of the pool, and the  *)
(* one step is the call.                                                   *)
(***************************************************************************)
NamePool ==
    {<<S_django_db, S_pre_save>>, <<S_app, S_ps>>, <<S_app, S_sig>>,
     <<S_orders, S_created>>, <<S_orders, S_sig>>, <<S_empty, S_sig>>,
     <<S_empty, S_ps>>}

InitNames ==
    /\ attrs = [t \in Targets |->
                   [ep \in EntryPoints |-> IF t = "Signal" THEN Django ELSE Absent]]
    /\ layers = <<>> /\ guards = <<>> /\ depth = <<>> /\ call_count = <<>>
    /\ current_context = <<>> /\ contexts = <<>> /\ stack = <<>>
    /\ ret = NoValue /\ events = <<>> /\ op = NoCall /\ ncalls = 0
    /\ suppress = {} /\ enumerations = 0 /\ kept = NoHandler
    /\ threads = <<>>
    /\ candidates \in SUBSET NamePool
    /\ resolved = NoValue

ResolveName ==
    /\ resolved = NoValue
    /\ resolved' = LET nm == get_signal_name(candidates)
                   IN  IF nm.raises THEN Raise("IndexError")
                       ELSE Return(<<nm.module, nm.name>>)
    /\ UNCHANGED <<patching, depth, call_count, current_context, contexts,
                   stack, ret, events, program, enumerations, kept,
                   candidates, threads>>

NextNames == ResolveName

SpecNames == InitNames /\ [][NextNames]_vars

(***************************************************************************)
(* Two threads dispatching at once.  One class-wide layer is installed on  *)
(* Signal and each of two threads sends once on channel d.  depth,         *)
(* call_count and current_context are attributes of the one Context class  *)
(* of the layer, shared by the threads without synchronization.  A thread  *)
(* can be switched out wherever a function is entered, so a step of a      *)
(* thread is the code between two calls that reads or writes the shared    *)
(* attributes: taking the call number, Context.__init__, the read of depth *)
(* in Context.log, the call of the sink, the read of current_context in    *)
(* receiver_wrapper, __enter__ and __exit__.  The dispatcher's own steps   *)
(* between them touch none of the shared attributes and are left out.      *)
(***************************************************************************)
Threads == {1, 2}
Other(t) == 3 - t
ThreadChannel == "d"

\* the contexts a thread has entered and not left, by the place it has reached
Nesting(t) ==
    CASE threads[t].pc \in {"receive", "receive_log", "receive_out", "sub_new",
                             "sub_enter", "exit"} -> 1
      [] threads[t].pc \in {"run", "sub_exit"} -> 2
      [] OTHER -> 0

\* Context.log up to the call of the sink: the line it has formatted, with
\* the nesting of the other thread at the time depth was read
Formatted(lines, t) ==
    <<lines[Len(lines)] @@ [read |-> Nesting(Other(t))]>>

\* the line handed to the sink, with the thread that writes it and the
\* nestings at the time of the write
Tagged(line, t) ==
    line @@ [thread |-> t, own |-> Nesting(t), other |-> Nesting(Other(t))]

At(t, pc) == threads[t].pc = pc
Goto(t, pc) == [threads EXCEPT ![t].pc = pc]

InitThreads ==
    LET lay == patch_signal(Pristine, "Signal", {})
    IN  /\ layers = <<lay @@ [before |-> Resolution(Pristine), enclosing |-> <<>>]>>
        /\ attrs = Patched(Pristine, 1, lay)
        /\ guards = <<1>>
        /\ depth = <<0>> /\ call_count = <<0>> /\ current_context = <<None>>
        /\ contexts = <<>> /\ stack = <<>> /\ ret = NoValue /\ events = <<>>
        /\ op = NoCall /\ ncalls = 0 /\ suppress = {} /\ enumerations = 0
        /\ kept = NoHandler /\ candidates = {} /\ resolved = NoValue
        /\ threads = [t \in Threads |->
                         [pc |-> "begin", number |-> 0, ctx |-> None,
                          seen |-> None, pending |-> <<>>, sub |-> None,
                          raised |-> FALSE]]

ThreadFixed == <<patching, stack, ret, op, ncalls, suppress, enumerations,
                 kept, candidates, resolved>>

\* send_wrapper: get_signal_name; with_call: Context.call_count += 1 and the
\* number read for SigCall
ThreadWithCall(t) ==
    /\ At(t, "begin")
    /\ call_count' = [call_count EXCEPT ![1] = @ + 1]
    /\ threads' = [threads EXCEPT ![t].pc = "init",
                                  ![t].number = call_count[1] + 1]
    /\ UNCHANGED <<ThreadFixed, depth, current_context, contexts, events>>

\* with_call: cls(call), i.e. Context.__init__ reading current_context
ThreadInit(t) ==
    /\ At(t, "init")
    /\ LET nm == get_signal_name(Referrers(ThreadChannel))
           call == SigCall(threads[t].number, "SEND", nm.module, nm.name,
                           Sender(ThreadChannel), Kwargs(ThreadChannel))
       IN  contexts' = Append(contexts, NewContext(1, current_context[1], call))
    /\ threads' = [threads EXCEPT ![t].pc = "log_call",
                                  ![t].ctx = Len(contexts) + 1]
    /\ UNCHANGED <<ThreadFixed, depth, call_count, current_context, events>>

\* send_wrapper: context.log_call() as far as Context.log has read depth
ThreadLogCall(t) ==
    /\ At(t, "log_call")
    /\ threads' = [threads EXCEPT
           ![t].pc = "log_call_out",
           ![t].pending = Formatted(log_call(1, contexts[threads[t].ctx].call), t)]
    /\ UNCHANGED <<ThreadFixed, depth, call_count, current_context, contexts,
                   events>>

\* Context.log: output(indent + msg), for the header or the receive line
ThreadOutput(t) ==
    /\ threads[t].pc \in {"log_call_out", "receive_out"}
    /\ events' = Append(events, Tagged(threads[t].pending[1], t))
    /\ threads' = [threads EXCEPT
           ![t].pc = IF threads[t].pc = "log_call_out" THEN "enter"
                     ELSE "sub_new",
           ![t].pending = <<>>]
    /\ UNCHANGED <<ThreadFixed, depth, call_count, current_context, contexts>>

\* mutant: __enter__ without the depth increment
ThreadEnter_flat(t) ==
    /\ At(t, "enter")
    /\ current_context' = [current_context EXCEPT ![1] = threads[t].ctx]
    /\ depth' = depth
    /\ contexts' = Entered(threads[t].ctx)
    /\ threads' = Goto(t, "receive")
    /\ UNCHANGED <<ThreadFixed, call_count, events>>

\* send_wrapper: with context: (Context.__enter__)
ThreadEnter(t) ==
    /\ At(t, "enter")
    /\ current_context' = [current_context EXCEPT ![1] = threads[t].ctx]
    /\ depth' = [depth EXCEPT ![1] = @ + 1]
    /\ contexts' = Entered(threads[t].ctx)
    /\ threads' = Goto(t, "receive")
    /\ UNCHANGED <<ThreadFixed, call_count, events>>

\* receiver_wrapper: Context.current_context read for .log_receive
ThreadReceiverCurrent(t) ==
    /\ At(t, "receive")
    /\ threads' = IF current_context[1] = None
                  THEN [threads EXCEPT ![t].pc = "exit", ![t].raised = TRUE]
                  ELSE [threads EXCEPT ![t].pc = "receive_log",
                                       ![t].seen = current_context[1]]
    /\ UNCHANGED <<ThreadFixed, depth, call_count, current_context, contexts,
                   events>>

\* log_receive(receiver) on that context, as far as Context.log has read depth
ThreadReceiverLog(t) ==
    /\ At(t, "receive_log")
    /\ threads' = [threads EXCEPT
           ![t].pc = "receive_out",
           ![t].pending =
               Formatted(log_receive(1, contexts[threads[t].seen].call,
                                     Callable(<<>>, Registry(ThreadChannel)[1])),
                         t)]
    /\ UNCHANGED <<ThreadFixed, depth, call_count, current_context, contexts,
                   events>>

\* receiver_wrapper: Context() (Context.__init__)
ThreadSubContext(t) ==
    /\ At(t, "sub_new")
    /\ IF current_context[1] = None
       THEN /\ threads' = [threads EXCEPT ![t].pc = "exit", ![t].raised = TRUE]
            /\ UNCHANGED contexts
       ELSE /\ contexts' =
                  Append(contexts,
                         NewContext(1, current_context[1],
                                    contexts[current_context[1]].call))
            /\ threads' = [threads EXCEPT ![t].pc = "sub_enter",
                                          ![t].sub = Len(contexts) + 1]
    /\ UNCHANGED <<ThreadFixed, depth, call_count, current_context, events>>

\* receiver_wrapper: with Context(): (Context.__enter__)
ThreadSubEnter(t) ==
    /\ At(t, "sub_enter")
    /\ current_context' = [current_context EXCEPT ![1] = threads[t].sub]
    /\ depth' = [depth EXCEPT ![1] = @ + 1]
    /\ contexts' = Entered(threads[t].sub)
    /\ threads' = Goto(t, "run")
    /\ UNCHANGED <<ThreadFixed, call_count, events>>

\* receiver_wrapper: return receiver(*a, **kw)
ThreadReceiverRuns(t) ==
    /\ At(t, "run")
    /\ events' = Append(events, [type |-> "exec", h |-> Registry(ThreadChannel)[1],
                                 inst |-> ThreadChannel, thread |-> t])
    /\ threads' = Goto(t, "sub_exit")
    /\ UNCHANGED <<ThreadFixed, depth, call_count, current_context, contexts>>

\* receiver_wrapper: leaving with Context(): (Context.__exit__)
ThreadSubExit(t) ==
    /\ At(t, "sub_exit")
    /\ current_context' = ExitCurrent(1, threads[t].sub)
    /\ depth' = ExitDepth(1)
    /\ contexts' = Exited(threads[t].sub)
    /\ threads' = Goto(t, "exit")
    /\ UNCHANGED <<ThreadFixed, call_count, events>>

\* send_wrapper: leaving with context: (Context.__exit__), returning or raising
ThreadExit(t) ==
    /\ At(t, "exit")
    /\ current_context' = ExitCurrent(1, threads[t].ctx)
    /\ depth' = ExitDepth(1)
    /\ contexts' = Exited(threads[t].ctx)
    /\ threads' = Goto(t, "done")
    /\ UNCHANGED <<ThreadFixed, call_count, events>>

NextThreads ==
    \/ \E t \in Threads : ThreadWithCall(t)
    \/ \E t \in Threads : ThreadInit(t)
    \/ \E t \in Threads : ThreadLogCall(t)
    \/ \E t \in Threads : ThreadOutput(t)
    \/ \E t \in Threads : ThreadEnter(t)
    \/ \E t \in Threads : ThreadReceiverCurrent(t)
    \/ \E t \in Threads : ThreadReceiverLog(t)
    \/ \E t \in Threads : ThreadSubContext(t)
    \/ \E t \in Threads : ThreadSubEnter(t)
    \/ \E t \in Threads : ThreadReceiverRuns(t)
    \/ \E t \in Threads : ThreadSubExit(t)
    \/ \E t \in Threads : ThreadExit(t)

SpecThreads == InitThreads /\ [][NextThreads]_vars

(***************************************************************************)
(* The uninstrumented dispatcher as a function: which receivers run, in    *)
(* which order, and what the call returns or raises.  The claims compare   *)
(* the instrumented program with it.                                       *)
(***************************************************************************)
RECURSIVE RefSend(_, _), RefFold(_, _, _, _, _)

RefReceiver(h, inst) ==
    LET me == <<[type |-> "exec", h |-> h, inst |-> inst]>>
    IN  CASE HandlerKind(h) = "return" ->
               [execs |-> me, out |-> Return(HandlerValue(h))]
          [] HandlerKind(h) = "raise" ->
               [execs |-> me, out |-> Raise(HandlerValue(h))]
          [] OTHER ->
               LET r == RefSend(NestTarget, "send")
               IN  [execs |-> me \o r.execs,
                    out |-> IF r.out.kind = "raise" THEN r.out
                            ELSE Return(HandlerValue(h))]

RefFold(inst, ep, k, execs, acc) ==
    IF k > Len(Registry(inst))
    THEN [execs |-> execs, out |-> Return(acc)]
    ELSE LET h == Registry(inst)[k]
             r == RefReceiver(h, inst)
         IN  IF r.out.kind = "raise" /\ ep = "send"
             THEN [execs |-> execs \o r.execs, out |-> r.out]
             ELSE RefFold(inst, ep, k + 1, execs \o r.execs,
                          Append(acc, [receiver |-> Callable(<<>>, h),
                                       raised |-> r.out.kind = "raise",
                                       response |-> r.out.val]))

RefSend(inst, ep) == RefFold(inst, ep, 1, <<>>, <<>>)

RefEnumerate(inst) ==
    [k \in 1..Len(Registry(inst)) |-> Callable(<<>>, Registry(inst)[k])]

(***************************************************************************)
(* Vocabulary of the properties.                                           *)
(***************************************************************************)
SendEntries == {"send", "send_robust"}
IsLine(e) == e.type = "line"
IsExec(e) == e.type = "exec"
IsHeader(e) == e.type = "line" /\ e.text.fmt = "call"
IsReceive(e) == e.type = "line" /\ e.text.fmt = "receive"
Lines == SelectSeq(events, IsLine)
Execs == SelectSeq(events, IsExec)
Headers == SelectSeq(events, IsHeader)
Receives == SelectSeq(events, IsReceive)

\* a top-level call has returned or raised and nothing has happened since
Done == Idle /\ op # NoCall /\ ret.kind # "none"
DoneSend == Done /\ op.ep \in SendEntries
Instrumented(inst, ep) == Lookup(attrs, inst, ep) # Django
Named(inst) == Referrers(inst) # {}
\* the name get_signal_name gives each channel
NameTable == [i \in Instances |-> get_signal_name(Referrers(i)).name]
NameOf(inst) == NameTable[inst]
GuardSet == {guards[k] : k \in 1..Len(guards)}

\* the responses of a send without the identities of the receivers
Responses(v) ==
    [k \in 1..Len(v) |-> [raised |-> v[k].raised, response |-> v[k].response]]

\* the outcome of the call equals that of the uninstrumented call, up to the
\* identities of the receivers reported in the result
SameOutcome(ref) ==
    /\ ret.kind = ref.kind
    /\ ret.kind = "raise" => ret.val = ref.val
    /\ ret.kind = "return" => Responses(ret.val) = Responses(ref.val)

RECURSIVE SumSeq(_)
SumSeq(q) == IF q = <<>> THEN 0 ELSE Head(q) + SumSeq(Tail(q))

\* no layer wraps the wrapper of another layer
Unstacked == \A L \in 1..Len(layers) : layers[L].original_send = Django

(***************************************************************************)
(* C1: for all sequences of N dispatches on instrumented channels, in any  *)
(* mix of channels and of installs, the sequence numbers in the output are *)
(* the integers 1..N, process-wide, unique and strictly increasing in      *)
(* dispatch order.  Stated for the programs in which every dispatch is     *)
(* traced by one layer: the k-th dispatch call of the process is logged    *)
(* with number k, and the numbers of the headers written during one call   *)
(* increase strictly.                                                      *)
(***************************************************************************)
C1_ProcessWideNumbers ==
    Unstacked =>
        /\ \A i, j \in 1..Len(Headers) :
              i < j => Headers[i].text.number < Headers[j].text.number
        /\ \A k \in 1..Len(stack) :
              stack[k].fn \in SendWrappers /\ stack[k].pc = "log_call"
                  => contexts[stack[k].ctx].call.number = SumSeq(call_count)

(***************************************************************************)
(* C2: install-then-revert round trip.  When the layer installed last has  *)
(* been reverted and nothing else has changed since it was installed,      *)
(* every entry point of every channel and class resolves as before the     *)
(* install; and after round trips from the pristine state an enumeration   *)
(* returns the registered receivers, a send runs the same receivers in the *)
(* same order, returns the same value and writes no line.                  *)
(***************************************************************************)
RoundTripsOnly ==
    /\ layers # <<>>
    /\ guards = <<>>
    /\ \A L \in 1..Len(layers) : layers[L].enclosing = <<>>

C2_RoundTrip ==
    /\ \A L \in 1..Len(layers) :
          (L = Len(layers) /\ L \notin GuardSet /\ guards = layers[L].enclosing)
              => Resolution(attrs) = layers[L].before
    /\ (Done /\ RoundTripsOnly) =>
          /\ Lines = <<>>
          /\ op.ep \in SendEntries =>
                /\ Execs = RefSend(op.inst, op.ep).execs
                /\ ret = RefSend(op.inst, op.ep).out
          /\ op.ep = "_live_receivers" => ret = Return(RefEnumerate(op.inst))

C2_Witness ==
    /\ Done /\ RoundTripsOnly
    /\ op = [ep |-> "send_robust", inst |-> "a"]
    /\ Len(Execs) = 4
    /\ ret.kind = "return"

(***************************************************************************)
(* C3: while instrumentation is installed, a send or fault-tolerant send   *)
(* invokes the same receivers as on the uninstrumented channel, each once  *)
(* and in the same order, and returns the same value, the receiver         *)
(* identities reported in the result included.  Stated for the channels    *)
(* whose name resolves (C9 is about the others).                           *)
(***************************************************************************)
C3_Transparent ==
    (DoneSend /\ Named(op.inst) /\ Instrumented(op.inst, op.ep)) =>
        /\ Execs = RefSend(op.inst, op.ep).execs
        /\ ret = RefSend(op.inst, op.ep).out

(***************************************************************************)
(* C4: if a receiver raises during an instrumented dispatch, send          *)
(* propagates exactly that exception to its caller, and send_robust        *)
(* reports the real exception as that receiver's response and still calls  *)
(* the remaining receivers, exactly as without instrumentation.            *)
(***************************************************************************)
SomeReceiverRaises(inst) ==
    \E k \in 1..Len(Registry(inst)) : HandlerKind(Registry(inst)[k]) = "raise"

C4_ExceptionsPassThrough ==
    (DoneSend /\ SomeReceiverRaises(op.inst) /\ Instrumented(op.inst, op.ep)) =>
        /\ Execs = RefSend(op.inst, op.ep).execs
        /\ SameOutcome(RefSend(op.inst, op.ep).out)
        /\ op.ep = "send" => ret = Raise("ValueError")
        /\ op.ep = "send_robust" =>
              /\ ret.kind = "return"
              /\ Len(ret.val) = Len(Registry(op.inst))
              /\ \A k \in 1..Len(ret.val) :
                    ret.val[k].raised <=>
                        HandlerKind(Registry(op.inst)[k]) = "raise"

C4_Witness ==
    /\ DoneSend /\ Instrumented("a", "send_robust")
    /\ op = [ep |-> "send_robust", inst |-> "a"]
    /\ Len(Receives) >= 3
    /\ ret.kind = "return"
    /\ ret.val[2].raised /\ ret.val[2].response = "ValueError"
    /\ ret.val[3].response = "created"

(***************************************************************************)
(* C5: stack discipline.  In every state each layer's depth counter equals *)
(* the number of its entered and unexited contexts, its current context is *)
(* the one entered last among them, the parent of an entered context is    *)
(* the one entered before it, the entered contexts are those of the        *)
(* wrapper frames still on the call stack, and when the top-level call has *)
(* returned or raised depth is 0 and there is no current context.          *)
(***************************************************************************)
ActiveOf(L) ==
    {c \in 1..Len(contexts) :
        contexts[c].layer = L /\ contexts[c].state = "ACTIVE"}

Latest(S) == IF S = {} THEN None ELSE CHOOSE c \in S : \A d \in S : d <= c

InsideWith ==
    {stack[k].ctx : k \in {n \in 1..Len(stack) : stack[n].pc = "exit"}}

C5_StackDiscipline ==
    /\ \A L \in 1..Len(layers) :
          /\ depth[L] = Cardinality(ActiveOf(L))
          /\ current_context[L] = Latest(ActiveOf(L))
          /\ \A c \in ActiveOf(L) :
                contexts[c].parent = Latest({d \in ActiveOf(L) : d < c})
          /\ Idle => depth[L] = 0 /\ current_context[L] = None
    /\ UNION {ActiveOf(L) : L \in 1..Len(layers)} = InsideWith

C5_Witness ==
    /\ Done /\ op = [ep |-> "send", inst |-> "a"]
    /\ ret = Raise("ValueError")
    /\ Len(contexts) >= 5
    /\ \A c \in 1..Len(contexts) : contexts[c].state = "CLOSED"
    /\ \A L \in 1..Len(layers) : depth[L] = 0 /\ current_context[L] = None

(***************************************************************************)
(* C6: wrapping idempotence.  However often the receivers have been        *)
(* enumerated, an enumeration of an instrumented channel hands out each    *)
(* receiver under exactly one wrapper, and a receiver invoked once during  *)
(* a dispatch is announced by exactly one receive line (by none when the   *)
(* channel is not traced or its name is suppressed).                       *)
(***************************************************************************)
RECURSIVE ReceivesBefore(_)
\* the receive lines written just before event i
ReceivesBefore(i) ==
    IF i > 1 /\ IsReceive(events[i - 1]) THEN 1 + ReceivesBefore(i - 1) ELSE 0

Announced(inst) ==
    /\ Instrumented(inst, "_live_receivers")
    /\ Named(inst)
    /\ NameOf(inst) \notin suppress

C6_OneReceiveLine ==
    /\ (Done /\ op.ep = "_live_receivers" /\ ret.kind = "return") =>
          \A k \in 1..Len(ret.val) :
             /\ ret.val[k].h = Registry(op.inst)[k]
             /\ ret.val[k].wraps =
                   IF Instrumented(op.inst, "_live_receivers")
                   THEN <<Lookup(attrs, op.inst, "_live_receivers")>>
                   ELSE <<>>
    /\ \A i \in 1..Len(events) :
          IsExec(events[i]) =>
              ReceivesBefore(i) = IF Announced(events[i].inst) THEN 1 ELSE 0

C6_Witness ==
    /\ DoneSend /\ op.inst = "a"
    /\ enumerations >= 2
    /\ Announced("a")
    /\ Len(Execs) >= 3
    /\ \A i \in 1..Len(events) :
          (IsExec(events[i]) /\ events[i].inst = "a") => ReceivesBefore(i) = 1

(***************************************************************************)
(* C7: nesting.  If receiver H, while handling the dispatch with sequence  *)
(* S, sends on another channel, then among the lines of the layer that     *)
(* wrote H's receive line the header of the nested dispatch is indented    *)
(* exactly one level deeper than H's receive line, the receive lines of    *)
(* the nested dispatch exactly two levels deeper (one deeper than their    *)
(* header), and the nested dispatch has a number of its own, other than S. *)
(***************************************************************************)
IsRelayLine(e) == IsReceive(e) /\ e.text.who = "module.relay"
IsNestedLine(e) == IsLine(e) /\ e.name = NameOf(NestTarget)

\* the (H's receive line, nested line) pairs of one layer in the current call
NestedPairs ==
    {p \in (1..Len(events)) \X (1..Len(events)) :
        /\ op.inst = "a"
        /\ p[1] < p[2]
        /\ IsRelayLine(events[p[1]])
        /\ IsNestedLine(events[p[2]])
        /\ events[p[1]].layer = events[p[2]].layer}

C7_NestedIndent ==
    \A p \in NestedPairs :
        LET h == events[p[1]]
            n == events[p[2]]
        IN  /\ n.text.number # h.text.number
            /\ IsHeader(n) => n.indent = h.indent + base_indent
            /\ IsReceive(n) => n.indent = h.indent + 2 * base_indent

\* the claim as made: every line of the nested dispatch one level deeper
C7_AllLinesOneDeeper ==
    \A p \in NestedPairs :
        /\ events[p[2]].text.number # events[p[1]].text.number
        /\ events[p[2]].indent = events[p[1]].indent + base_indent

C7_Witness ==
    /\ Done
    /\ \E p \in NestedPairs : IsHeader(events[p[2]])
    /\ \E p \in NestedPairs : IsReceive(events[p[2]])

(***************************************************************************)
(* C8: suppression.  No line is written for a dispatch whose channel name  *)
(* is in the suppress set of the layer, neither its header nor its receive *)
(* lines, while the receivers of that channel still run and the send       *)
(* returns what it returns without suppression.                            *)
(***************************************************************************)
C8_Suppression ==
    /\ \A i \in 1..Len(events) :
          IsLine(events[i]) =>
              events[i].name \notin layers[events[i].layer].suppress
    /\ (DoneSend /\ Named(op.inst) /\ suppress # {}) =>
          /\ Execs = RefSend(op.inst, op.ep).execs
          /\ SameOutcome(RefSend(op.inst, op.ep).out)

C8_Witness ==
    /\ DoneSend /\ op = [ep |-> "send_robust", inst |-> "a"]
    /\ Instrumented("a", "send_robust") /\ Instrumented("b", "send")
    /\ NameOf("b") \in suppress
    /\ Len(Lines) = 4
    /\ \E i \in 1..Len(events) : IsExec(events[i]) /\ events[i].inst = "b"
    /\ Len(ret.val) = 3

(***************************************************************************)
(* C9: name-resolution failure is not fatal.  When the channel has no      *)
(* referrer to take a name from, the instrumented send raises no error,    *)
(* logs the dispatch (with an empty container name) and still performs the *)
(* original dispatch.                                                      *)
(***************************************************************************)
C9_UnnamedChannelSend ==
    (DoneSend /\ ~Named(op.inst) /\ Instrumented(op.inst, op.ep)) =>
        /\ ret.kind = "return"
        /\ Execs = RefSend(op.inst, op.ep).execs
        /\ suppress = {} => Len(Headers) >= 1

(***************************************************************************)
(* C10: the scoped guard.  Entering the guard binds the layer's wrappers   *)
(* to the three entry points of its target; leaving it, at the end of the  *)
(* body or by an exception of the body, binds the target's three entry     *)
(* points to what they resolved to before the guard was entered, and the   *)
(* exception goes on propagating.                                          *)
(***************************************************************************)
C10_GuardRestores ==
    [][/\ Len(guards') > Len(guards) =>
             LET L == guards'[Len(guards')]
             IN  \A ep \in EntryPoints :
                     Lookup(attrs', layers'[L].signal, ep) = L
       /\ Len(guards') < Len(guards) =>
             LET lay == layers[guards[Len(guards)]]
             IN  /\ \A ep \in EntryPoints :
                        Lookup(attrs', lay.signal, ep) = lay.before[lay.signal][ep]
                 /\ ret.kind = "raise" => ret' = ret
      ]_vars

\* a guard was left by an exception of its body, which still propagates
C10_Witness ==
    /\ Propagating /\ op = NoCall
    /\ layers # <<>> /\ guards = <<>>
    /\ ret = Raise("ValueError")
    /\ \A ep \in EntryPoints :
          Lookup(attrs, layers[1].signal, ep) = layers[1].before[layers[1].signal][ep]

(***************************************************************************)
(* C11: stacked installs are LIFO layers.  After two installs on the same  *)
(* target (a channel class or one channel) both layers are active, so one  *)
(* send on a channel of the target is traced once by each layer: each      *)
(* layer writes exactly one header for it; and after both guards have been *)
(* left, innermost first, every entry point resolves as before the first   *)
(* install.                                                                *)
(***************************************************************************)
\* the target of a layer covers the channel
Covers(target, inst) ==
    target \in {inst, TypeOf(inst), "Signal"}

\* the headers layer L wrote for the top-level dispatch
HeadersOf(L) ==
    {i \in 1..Len(events) :
        /\ IsHeader(events[i])
        /\ events[i].layer = L
        /\ events[i].name = NameOf(op.inst)}

StackedTwice ==
    /\ Len(layers) = 2
    /\ layers[1].signal = layers[2].signal
    /\ layers[2].enclosing = <<1>>

C11_StackedLayers ==
    /\ (DoneSend /\ StackedTwice /\ guards = <<1, 2>> /\ suppress = {}
          /\ Named(op.inst) /\ Covers(layers[1].signal, op.inst)) =>
            \A L \in {1, 2} : Cardinality(HeadersOf(L)) = 1
    /\ (StackedTwice /\ guards = <<>>) => Resolution(attrs) = layers[1].before

(***************************************************************************)
(* C12: at most one active wrapper per receiver.  Whatever layers are      *)
(* stacked and however often the receivers are enumerated, no receiver     *)
(* carries more than one wrapper, the receivers the dispatcher gets from   *)
(* the outermost enumeration of an instrumented channel carry exactly one, *)
(* and in a completed call, over all layers together, one receiver         *)
(* invocation has produced exactly one receive line (none when the channel *)
(* is not traced or its name is suppressed).                               *)
(***************************************************************************)
\* the receive lines, of any layer, that announce receiver h of channel inst
ReceiveLinesFor(inst, h) ==
    {i \in 1..Len(events) :
        /\ IsReceive(events[i])
        /\ events[i].name = NameOf(inst)
        /\ events[i].text.who = get_receiver_name(resolve_receiver(h))}

ExecsOf(inst, h) ==
    {i \in 1..Len(events) :
        IsExec(events[i]) /\ events[i].h = h /\ events[i].inst = inst}

C12_OneWrapperPerReceiver ==
    /\ \A k \in 1..Len(stack) :
          /\ Len(stack[k].rcv.wraps) <= 1
          /\ \A j \in 1..Len(stack[k].recvs) :
                /\ Len(stack[k].recvs[j].wraps) <= 1
                /\ (stack[k].fn \in DjangoSends
                      /\ Instrumented(stack[k].inst, "_live_receivers")) =>
                      Len(stack[k].recvs[j].wraps) = 1
    /\ Done => \A inst \in Instances : \A k \in 1..Len(Registry(inst)) :
          LET h == Registry(inst)[k]
          IN  Cardinality(ReceiveLinesFor(inst, h)) =
                  IF Announced(inst) THEN Cardinality(ExecsOf(inst, h)) ELSE 0

\* one send through two stacked class-wide layers: each receiver announced once
C12_Witness ==
    /\ DoneSend /\ op = [ep |-> "send_robust", inst |-> "a"]
    /\ guards = <<1, 2>>
    /\ layers[1].signal = "Signal" /\ layers[2].signal = "Signal"
    /\ suppress = {}
    /\ Cardinality(HeadersOf(1)) = 1 /\ Cardinality(HeadersOf(2)) = 1
    /\ \A k \in 1..3 :
          /\ Cardinality(ExecsOf("a", Registry("a")[k])) = 1
          /\ Cardinality(ReceiveLinesFor("a", Registry("a")[k])) = 1

(***************************************************************************)
(* C13: revert restores the exact previous binding.  After installs that   *)
(* have each been reverted, every class and channel has the attributes it  *)
(* had before: a target that inherited an entry point inherits it again    *)
(* and has no binding of its own, so that a later class-wide install is    *)
(* seen through every channel of the class.                                *)
(***************************************************************************)
\* every layer but the last has been reverted, the last is a class-wide one
ClassWideAfterRoundTrips ==
    /\ layers # <<>>
    /\ guards = <<Len(layers)>>
    /\ ~layers[Len(layers)].is_instance
    /\ \A L \in 1..Len(layers) : layers[L].enclosing = <<>>

C13_ExactBinding ==
    /\ RoundTripsOnly => attrs = Pristine
    /\ ClassWideAfterRoundTrips =>
          \A i \in Instances : \A ep \in EntryPoints :
              Covers(layers[Len(layers)].signal, i) =>
                  Lookup(attrs, i, ep) = Len(layers)

(***************************************************************************)
(* C14: target scope.  After any sequence of installs and LIFO reverts,    *)
(* while a class-wide layer is installed every dispatch on every channel   *)
(* of that class (or of a subclass) is traced by it, also on a channel     *)
(* that had or has an install of its own; and while only single-channel    *)
(* layers are installed, a dispatch on another channel writes no line.     *)
(***************************************************************************)
ActiveClassLayers(inst) ==
    {L \in GuardSet : ~layers[L].is_instance /\ Covers(layers[L].signal, inst)}

OnlyInstanceLayers ==
    /\ guards # <<>>
    /\ \A L \in GuardSet : layers[L].is_instance

C14_TargetScope ==
    /\ (DoneSend /\ Named(op.inst) /\ suppress = {}) =>
          \A L \in ActiveClassLayers(op.inst) : HeadersOf(L) # {}
    /\ (DoneSend /\ OnlyInstanceLayers
          /\ \A L \in GuardSet : layers[L].signal # op.inst) =>
             \A i \in 1..Len(events) :
                 IsLine(events[i]) => events[i].name # NameOf(op.inst)

(***************************************************************************)
(* C15: the scenario.  On channel orders.created, with no suppression and  *)
(* the one receiver module.on_created, the first send with sender class    *)
(* Order and no keyword arguments writes exactly two lines: the header     *)
(* "SEND 1 orders.created Order", the sender being named by its class      *)
(* alone since there is no `instance` keyword to take an identifier from,  *)
(* then the receive line "RECEIVING 1 created: module.on_created", which   *)
(* names the channel by its attribute name only.                           *)
(***************************************************************************)
FirstSendOnOrders ==
    /\ DoneSend /\ op = [ep |-> "send", inst |-> "d"]
    /\ suppress = {}
    /\ Len(layers) = 1 /\ guards = <<1>>
    /\ call_count = <<1>>

LineTexts == [k \in 1..Len(Lines) |-> Lines[k].text]

C15_ScenarioLines ==
    FirstSendOnOrders =>
        LineTexts =
            <<[fmt |-> "call", method |-> "SEND", number |-> 1,
               qualname |-> S_orders \o S_dot \o S_created,
               who |-> [name |-> "Order", pk |-> <<>>]],
              [fmt |-> "receive", method |-> "RECEIVING", number |-> 1,
               qualname |-> S_created,
               who |-> "module.on_created"]>>

\* the claim as made: sender descriptor 'Order (1)' and the qualified channel
\* name orders.created in the receive line too
C15_ScenarioAsStated ==
    FirstSendOnOrders =>
        LineTexts =
            <<[fmt |-> "call", method |-> "SEND", number |-> 1,
               qualname |-> S_orders \o S_dot \o S_created,
               who |-> [name |-> "Order", pk |-> <<1>>]],
              [fmt |-> "receive", method |-> "RECEIVING", number |-> 1,
               qualname |-> S_orders \o S_dot \o S_created,
               who |-> "module.on_created"]>>

C15_Witness ==
    /\ FirstSendOnOrders
    /\ Len(Lines) = 2 /\ Len(Execs) = 1
    /\ ret.kind = "return"

(***************************************************************************)
(* C16: channel-name resolution returns, for every non-empty set of        *)
(* candidates, the best one under the preference order: a named container  *)
(* over an unnamed one, then a django container over application code,     *)
(* then a non-private attribute name over a private one, then a longer     *)
(* attribute name over a shorter one, then lexicographic order.            *)
(***************************************************************************)
PreferenceKey(i) ==
    <<Bit(i[1] # <<>>),
      Bit(i[1] # <<>> /\ StartsWith(i[1], S_django_dot)),
      Bit(~StartsWith(i[2], S_underscore)),
      Len(i[2])>>

Preferred(i, j) ==
    \/ SeqLess(PreferenceKey(j), PreferenceKey(i))
    \/ /\ PreferenceKey(j) = PreferenceKey(i)
       /\ \/ SeqLess(j[1], i[1])
          \/ j[1] = i[1] /\ SeqLess(j[2], i[2])

BestCandidate(refs) == CHOOSE i \in refs : \A j \in refs \ {i} : Preferred(i, j)

C16_BestCandidate ==
    (candidates # {} /\ resolved # NoValue) =>
        resolved = Return(BestCandidate(candidates))

(***************************************************************************)
(* C17: every receive line reports the number of the dispatch whose        *)
(* receiver is being invoked.  The receive line written for a receiver of  *)
(* a channel carries the channel's name and the number of the header its   *)
(* layer wrote last for that channel, also for the receivers that follow   *)
(* one that made a nested dispatch.                                        *)
(***************************************************************************)
\* the headers that layer L wrote for channel inst before event i
HeadersBefore(L, inst, i) ==
    {j \in 1..(i - 1) :
        /\ IsHeader(events[j])
        /\ events[j].layer = L
        /\ events[j].name = NameOf(inst)}

C17_ReceiveNumbers ==
    \A i \in 2..Len(events) :
        (IsExec(events[i]) /\ IsReceive(events[i - 1])) =>
            LET r == events[i - 1]
                hs == HeadersBefore(r.layer, events[i].inst, i)
            IN  /\ r.name = NameOf(events[i].inst)
                /\ r.text.who =
                       get_receiver_name(resolve_receiver(events[i].h))
                /\ hs # {}
                /\ r.text.number =
                       events[CHOOSE j \in hs : \A k \in hs : k <= j].text.number

\* after relay's nested dispatch (number 2) the next receiver of the outer
\* dispatch is announced under the outer number again
C17_Witness ==
    /\ DoneSend /\ op = [ep |-> "send_robust", inst |-> "a"]
    /\ Len(layers) = 1
    /\ \E i, j, k \in 1..Len(events) :
          /\ i < j /\ j < k
          /\ IsHeader(events[i]) /\ events[i].name = NameOf("a")
          /\ IsHeader(events[j]) /\ events[j].name = NameOf(NestTarget)
          /\ events[j].text.number # events[i].text.number
          /\ IsReceive(events[k]) /\ events[k].text.who = "module.boom"
          /\ events[k].text.number = events[i].text.number
          /\ events[k].name = NameOf("a")

(***************************************************************************)
(* C18: output order.  The lines reach the sink in depth-first dispatch    *)
(* order: the header of a dispatch precedes its receive lines; a           *)
(* receiver's receive line comes right before the receiver runs, so before *)
(* every line of a dispatch the receiver makes; and those lines all come   *)
(* before the receive line of the next receiver of the same dispatch.      *)
(***************************************************************************)
\* positions of the receive lines and of the executions of receiver k of a
ReceivePos(k) ==
    {i \in 1..Len(events) :
        /\ IsReceive(events[i])
        /\ events[i].name = NameOf("a")
        /\ events[i].text.who = get_receiver_name(resolve_receiver(Registry("a")[k]))}

NestedPos == {i \in 1..Len(events) : IsNestedLine(events[i])}

C18_DepthFirstOrder ==
    /\ \A j \in 1..Len(events) :
          IsReceive(events[j]) =>
              \E i \in 1..(j - 1) :
                  /\ IsHeader(events[i])
                  /\ events[i].layer = events[j].layer
                  /\ events[i].name = events[j].name
                  /\ events[i].text.number = events[j].text.number
    /\ \A i \in 1..Len(events) :
          (IsExec(events[i]) /\ Announced(events[i].inst)) =>
              /\ i > 1 /\ IsReceive(events[i - 1])
              /\ events[i - 1].text.who =
                     get_receiver_name(resolve_receiver(events[i].h))
    /\ op.inst = "a" =>
          /\ \A j \in NestedPos :
                /\ \E i \in 1..(j - 1) :
                      IsExec(events[i]) /\ HandlerKind(events[i].h) = "nest"
                /\ \A k \in 2..Len(Registry("a")) : \A r \in ReceivePos(k) : j < r
          /\ \A k \in 1..(Len(Registry("a")) - 1) :
                \A r \in ReceivePos(k) : \A q \in ReceivePos(k + 1) : r < q

C18_Witness ==
    /\ DoneSend /\ op = [ep |-> "send_robust", inst |-> "a"]
    /\ Len(layers) = 1 /\ suppress = {}
    /\ Len(events) = 10
    /\ IsHeader(events[1]) /\ IsReceive(events[2]) /\ IsExec(events[3])
    /\ IsHeader(events[4]) /\ IsReceive(events[5]) /\ IsExec(events[6])
    /\ events[6].inst = NestTarget
    /\ IsReceive(events[7]) /\ events[7].name = NameOf("a")
    /\ IsExec(events[8]) /\ IsReceive(events[9]) /\ IsExec(events[10])

(***************************************************************************)
(* C19: without synchronization two threads dispatching at once corrupt    *)
(* the bookkeeping.  __enter__ and __exit__ run without a switch, so the    *)
(* depth counter is the sum of the nestings of the two threads; a line is  *)
(* written with the depth its writer read, which is the writer's own       *)
(* nesting plus the nesting the other thread had at the read; and when     *)
(* both dispatches have finished depth is 0 while the current context is   *)
(* none or a context of a finished dispatch.  The witness is the           *)
(* corruption of the claim: a reachable state in which both dispatches     *)
(* have finished, a line was written at a depth other than its writer's    *)
(* nesting, and a stale context is current.                                *)
(***************************************************************************)
AllThreadsDone == threads # <<>> /\ \A t \in Threads : At(t, "done")

C19_SharedBookkeeping ==
    /\ depth[1] = Nesting(1) + Nesting(2)
    /\ \A i \in 1..Len(events) :
          IsLine(events[i]) =>
              events[i].indent =
                  base_indent * (events[i].own + events[i].read)
    /\ AllThreadsDone =>
          /\ depth[1] = 0
          /\ \/ current_context[1] = None
             \/ contexts[current_context[1]].state = "CLOSED"

C19_Witness ==
    /\ AllThreadsDone
    /\ current_context[1] # None
    /\ \E i \in 1..Len(events) :
          /\ IsLine(events[i])
          /\ events[i].indent # base_indent * events[i].own

(***************************************************************************)
(* C20: a wrapped receiver obtained from an instrumented channel, from an  *)
(* enumeration or from the result of a send, can be called at any later    *)
(* time, also when no dispatch of its layer is in progress or its layer    *)
(* has been reverted: it runs the original receiver and returns its        *)
(* result, raising no error of its own.                                    *)
(***************************************************************************)
C20_WrappedReceiverLater ==
    (Done /\ op.ep = "receiver" /\ kept.wraps # <<>>) =>
        /\ ret = Return(HandlerValue(kept.h))
        /\ Execs = <<[type |-> "exec", h |-> kept.h, inst |-> op.inst]>>

====
